---- MODULE Spec2Model ----
(***************************************************************************)
(* Model of src/src/modules/parser.ts: the .osu beatmap parser             *)
(* (parseOsuFile, parseMetadata, parseTimingPoints, parseHitObjects) and   *)
(* organizeNotesByColumn.                                                  *)
(*                                                                         *)
(* A text is a sequence of one-character strings, and every regular        *)
(* expression of the source is an operator over such sequences.  Numbers   *)
(* read by parseInt are integers; numbers read by parseFloat are exact     *)
(* decimal fractions [nan, n, d] (value n/d, d a power of ten).            *)
(***************************************************************************)
EXTENDS Integers, Sequences, FiniteSets, TLC

VARIABLES osuContent,    \* the text handed to parseOsuFile
          pc,            \* position inside parseOsuFile
          metadata,      \* const metadata      (line 52)
          timingPoints,  \* const timingPoints  (line 53)
          hitObjects,    \* const hitObjects    (line 54)
          result,        \* the ParsedMap returned (lines 61-69), or Unset
          error,         \* the Error thrown (line 142), or Unset
          orgObjects,    \* organizeNotesByColumn: argument hitObjects
          orgKeyCount,   \* organizeNotesByColumn: argument keyCount
          columns        \* organizeNotesByColumn: the value returned, or Unset

vars == <<osuContent, pc, metadata, timingPoints, hitObjects, result, error,
          orgObjects, orgKeyCount, columns>>

-----------------------------------------------------------------------------
(* Optional values (undefined / a value) and characters.                   *)

Unset == <<>>
Some(v) == <<v>>
IsSet(o) == Len(o) = 1
Val(o) == o[1]

Min(S) == CHOOSE i \in S : \A j \in S : i <= j
Max(S) == CHOOSE i \in S : \A j \in S : i >= j

DigitValue ==
  "0" :> 0 @@ "1" :> 1 @@ "2" :> 2 @@ "3" :> 3 @@ "4" :> 4 @@
  "5" :> 5 @@ "6" :> 6 @@ "7" :> 7 @@ "8" :> 8 @@ "9" :> 9

IsDigit(c) == c \in DOMAIN DigitValue

\* \s of the regular expressions and the characters String.prototype.trim strips.
IsSpace(c) == c \in {" ", "\t", "\n", "\r"}

\* The characters "." of a regular expression does not match.
IsLineTerminator(c) == c \in {"\n", "\r"}

UpperToLower ==
  "A" :> "a" @@ "B" :> "b" @@ "C" :> "c" @@ "D" :> "d" @@ "E" :> "e" @@
  "F" :> "f" @@ "G" :> "g" @@ "H" :> "h" @@ "I" :> "i" @@ "J" :> "j" @@
  "K" :> "k" @@ "L" :> "l" @@ "M" :> "m" @@ "N" :> "n" @@ "O" :> "o" @@
  "P" :> "p" @@ "Q" :> "q" @@ "R" :> "r" @@ "S" :> "s" @@ "T" :> "t" @@
  "U" :> "u" @@ "V" :> "v" @@ "W" :> "w" @@ "X" :> "x" @@ "Y" :> "y" @@
  "Z" :> "z"

\* The i flag: both sides are compared with their case folded.
FoldCase(c) == IF c \in DOMAIN UpperToLower THEN UpperToLower[c] ELSE c

\* The literal pat (given in lower case) matches s at index i, ignoring case.
MatchAt(s, i, pat) ==
  /\ i + Len(pat) - 1 <= Len(s)
  /\ \A k \in 1..Len(pat) : FoldCase(s[i + k - 1]) = pat[k]

\* Index of the first match of pat in s at or after from; 0 when there is none.
IndexOf(s, pat, from) ==
  LET hits == {i \in from..(Len(s) - Len(pat) + 1) : MatchAt(s, i, pat)}
  IN IF hits = {} THEN 0 ELSE Min(hits)

\* The character classes of the regular expressions: \d, [\d.], \s and ".".
InClass(c, class) ==
  CASE class = "\\d" -> IsDigit(c)
    [] class = "[\\d.]" -> IsDigit(c) \/ c = "."
    [] class = "\\s" -> IsSpace(c)
    [] class = "." -> ~IsLineTerminator(c)

\* Last index of the longest run of characters of the class that starts at p;
\* p - 1 when the run is empty.
RunEnd(s, p, class) ==
  LET stops == {j \in p..Len(s) : ~InClass(s[j], class)}
  IN IF stops = {} THEN Len(s) ELSE Min(stops) - 1

\* String.prototype.trim
trim(s) ==
  LET keep == {i \in 1..Len(s) : ~IsSpace(s[i])}
  IN IF keep = {} THEN <<>> ELSE SubSeq(s, Min(keep), Max(keep))

\* parseInt on a string of decimal digits.
RECURSIVE parseInt(_)
parseInt(s) ==
  IF s = <<>> THEN 0
  ELSE parseInt(SubSeq(s, 1, Len(s) - 1)) * 10 + DigitValue[s[Len(s)]]

RECURSIVE Pow10(_)
Pow10(k) == IF k = 0 THEN 1 ELSE 10 * Pow10(k - 1)

\* A finite number n/d in lowest decimal terms (d a power of ten), and NaN.
RECURSIVE Rat(_, _)
Rat(n, d) ==
  IF d > 1 /\ n % 10 = 0 THEN Rat(n \div 10, d \div 10)
  ELSE [nan |-> FALSE, n |-> n, d |-> d]

NaN == [nan |-> TRUE, n |-> 0, d |-> 1]

\* parseFloat on a string made of "-", digits and ".": the longest prefix that
\* is a decimal literal ("4", "4.", "4.5", ".5", "-2.5"); NaN when there is no
\* digit in it.
parseFloat(s) ==
  LET neg == s # <<>> /\ s[1] = "-"
      p == IF neg THEN 2 ELSE 1
      e1 == RunEnd(s, p, "\\d")
      int == SubSeq(s, p, e1)
      dot == e1 + 1 <= Len(s) /\ s[e1 + 1] = "."
      e2 == IF dot THEN RunEnd(s, e1 + 2, "\\d") ELSE e1
      frac == IF dot THEN SubSeq(s, e1 + 2, e2) ELSE <<>>
      mag == parseInt(int \o frac)
  IN IF int = <<>> /\ frac = <<>> THEN NaN
     ELSE Rat(IF neg THEN 0 - mag ELSE mag, Pow10(Len(frac)))

\* The falsy numbers of `value || fallback`.
IsFalsyNumber(r) == r.nan \/ r.n = 0

-----------------------------------------------------------------------------
(* parseMetadata (lines 72-104)                                            *)

\* osuContent.match(/\[Name\]([\s\S]*?)(?=\[|$)/i): group 1, the text after the
\* first header up to the next "[" or the end of the text.
sectionMatch(s, header) ==
  LET i == IndexOf(s, header, 1)
      start == i + Len(header)
      stops == {j \in start..Len(s) : s[j] = "["}
      end == IF stops = {} THEN Len(s) ELSE Min(stops) - 1
  IN IF i = 0 THEN Unset ELSE Some(SubSeq(s, start, end))

\* /Key:\s*(.+)/i tried at index p of body: where group 1 starts, 0 when the
\* expression does not match there. \s* is greedy and gives characters back
\* until "." finds a character that is not a line terminator.
TextCaptureStart(body, p, key) ==
  LET q == p + Len(key)
      w == RunEnd(body, q, "\\s")
      cands == {k \in q..(w + 1) : k <= Len(body) /\ ~IsLineTerminator(body[k])}
  IN IF MatchAt(body, p, key) /\ cands # {} THEN Max(cands) ELSE 0

\* body.match(/Key:\s*(.+)/i): group 1 of the leftmost match.
textField(body, key) ==
  LET hits == {p \in 1..Len(body) : TextCaptureStart(body, p, key) # 0}
      start == TextCaptureStart(body, Min(hits), key)
  IN IF hits = {} THEN Unset
     ELSE Some(SubSeq(body, start, RunEnd(body, start, ".")))

\* body.match(/Key:\s*(class+)/i) for a class without white space (\d, [\d.]):
\* group 1 of the leftmost match.
ClassCaptureStart(body, p, key, class) ==
  LET start == RunEnd(body, p + Len(key), "\\s") + 1
  IN IF MatchAt(body, p, key) /\ start <= Len(body) /\ InClass(body[start], class)
     THEN start ELSE 0

classField(body, key, class) ==
  LET hits == {p \in 1..Len(body) : ClassCaptureStart(body, p, key, class) # 0}
      start == ClassCaptureStart(body, Min(hits), key, class)
  IN IF hits = {} THEN Unset
     ELSE Some(SubSeq(body, start, RunEnd(body, start, class)))

\* Optional map: f applied to a set value.
OptTrim(o) == IF IsSet(o) THEN Some(trim(Val(o))) ELSE Unset

GeneralHeader == <<"[", "g", "e", "n", "e", "r", "a", "l", "]">>
MetadataHeader == <<"[", "m", "e", "t", "a", "d", "a", "t", "a", "]">>
DifficultyHeader == <<"[", "d", "i", "f", "f", "i", "c", "u", "l", "t", "y", "]">>
TimingPointsHeader ==
  <<"[", "t", "i", "m", "i", "n", "g", "p", "o", "i", "n", "t", "s", "]">>
HitObjectsHeader == <<"[", "h", "i", "t", "o", "b", "j", "e", "c", "t", "s", "]">>

AudioFilenameKey ==
  <<"a", "u", "d", "i", "o", "f", "i", "l", "e", "n", "a", "m", "e", ":">>
ModeKey == <<"m", "o", "d", "e", ":">>
TitleKey == <<"t", "i", "t", "l", "e", ":">>
ArtistKey == <<"a", "r", "t", "i", "s", "t", ":">>
CreatorKey == <<"c", "r", "e", "a", "t", "o", "r", ":">>
VersionKey == <<"v", "e", "r", "s", "i", "o", "n", ":">>
CircleSizeKey == <<"c", "i", "r", "c", "l", "e", "s", "i", "z", "e", ":">>

parseMetadata(s) ==
  LET generalMatch == sectionMatch(s, GeneralHeader)
      metadataMatch == sectionMatch(s, MetadataHeader)
      difficultyMatch == sectionMatch(s, DifficultyHeader)
      modeMatch == IF IsSet(generalMatch)
                   THEN classField(Val(generalMatch), ModeKey, "\\d") ELSE Unset
      csMatch == IF IsSet(difficultyMatch)
                 THEN classField(Val(difficultyMatch), CircleSizeKey, "[\\d.]")
                 ELSE Unset
      Text(section, key) ==
        IF IsSet(section) THEN OptTrim(textField(Val(section), key)) ELSE Unset
  IN [audioFilename |-> Text(generalMatch, AudioFilenameKey),
      mode |-> IF IsSet(modeMatch) THEN Some(parseInt(Val(modeMatch))) ELSE Unset,
      title |-> Text(metadataMatch, TitleKey),
      artist |-> Text(metadataMatch, ArtistKey),
      creator |-> Text(metadataMatch, CreatorKey),
      version |-> Text(metadataMatch, VersionKey),
      circleSize |-> IF IsSet(csMatch) THEN Some(parseFloat(Val(csMatch))) ELSE Unset]

-----------------------------------------------------------------------------
(* Lines and comma-separated fields                                        *)

\* splitSection with the wrong piece taken: split(...)[0], the text before the
\* first header, which is the whole text when there is no header.
splitSectionFirstPiece(s, header) ==
  LET i == IndexOf(s, header, 1)
  IN Some(IF i = 0 THEN s ELSE SubSeq(s, 1, i - 1))

\* osuContent.split(/\[Name\]/i)[1]: the text between the first header and the
\* second one (or the end of the text); Unset (undefined) without a header.
splitSection(s, header) ==
  LET i == IndexOf(s, header, 1)
      start == i + Len(header)
      j == IndexOf(s, header, start)
      end == IF j = 0 THEN Len(s) ELSE j - 1
  IN IF i = 0 THEN Unset ELSE Some(SubSeq(s, start, end))

\* s.split(/\r?\n/)
RECURSIVE splitLines(_)
splitLines(s) ==
  LET breaks == {i \in 1..Len(s) : s[i] = "\n"}
      i == Min(breaks)
      e == IF i > 1 /\ s[i - 1] = "\r" THEN i - 2 ELSE i - 1
  IN IF breaks = {} THEN <<s>>
     ELSE <<SubSeq(s, 1, e)>> \o splitLines(SubSeq(s, i + 1, Len(s)))

StartsWith(s, prefix) ==
  Len(prefix) <= Len(s) /\ SubSeq(s, 1, Len(prefix)) = prefix

\* .filter(line => line.length > 0 && !line.startsWith("//") && !line.startsWith("["))
IsRecordLine(line) ==
  /\ Len(line) > 0
  /\ ~StartsWith(line, <<"/", "/">>)
  /\ ~StartsWith(line, <<"[">>)

\* section.split(/\r?\n/).map(line => line.trim()).filter(...)
sectionLines(section) ==
  LET raw == splitLines(section)
      trimmed == [i \in 1..Len(raw) |-> trim(raw[i])]
  IN SelectSeq(trimmed, IsRecordLine)

\* The indices of the commas of a line, in ascending order.
RECURSIVE SortedIndices(_)
SortedIndices(S) ==
  IF S = {} THEN <<>> ELSE <<Min(S)>> \o SortedIndices(S \ {Min(S)})

CommaIndices(line) == SortedIndices({i \in 1..Len(line) : line[i] = ","})

\* Field k of a line cut at the given commas (the last field runs to the end).
Field(line, commas, k) ==
  SubSeq(line,
         IF k = 1 THEN 1 ELSE commas[k - 1] + 1,
         IF k > Len(commas) THEN Len(line) ELSE commas[k] - 1)

\* \d+
IsDigits(f) == f # <<>> /\ \A i \in 1..Len(f) : IsDigit(f[i])

\* -?\d+(?:\.\d+)?
IsDecimal(f) ==
  LET p == IF f # <<>> /\ f[1] = "-" THEN 2 ELSE 1
      e1 == RunEnd(f, p, "\\d")
  IN /\ e1 >= p
     /\ \/ e1 = Len(f)
        \/ /\ e1 + 1 < Len(f)
           /\ f[e1 + 1] = "."
           /\ RunEnd(f, e1 + 2, "\\d") = Len(f)

-----------------------------------------------------------------------------------------------------------------------------------------------------
(* Array.prototype.sort((a, b) => a.time - b.time): a stable sort, written *)
(* as an insertion sort over the comparator's sign.                        *)

\* compare(a, b) > 0 for the comparator (a, b) => a.time - b.time; numbers is
\* "int" for times read by parseInt, "float" for times read by parseFloat.
After(a, b, numbers) ==
  IF numbers = "int" THEN a.time - b.time > 0
  ELSE a.time.n * b.time.d - b.time.n * a.time.d > 0

RECURSIVE Insert(_, _, _)
Insert(sorted, x, numbers) ==
  IF sorted = <<>> THEN <<x>>
  ELSE IF After(sorted[Len(sorted)], x, numbers)
       THEN Insert(SubSeq(sorted, 1, Len(sorted) - 1), x, numbers)
              \o <<sorted[Len(sorted)]>>
       ELSE sorted \o <<x>>

RECURSIVE SortFrom(_, _, _)
SortFrom(done, rest, numbers) ==
  IF rest = <<>> THEN done
  ELSE SortFrom(Insert(done, rest[1], numbers), Tail(rest), numbers)

\* sort left out: the records stay in line order.
sortLeftOut(seq, numbers) == seq

sort(seq, numbers) == SortFrom(<<>>, seq, numbers)

-----
(* parseTimingPoints (lines 106-137)                                       *)

\* timingRegex (line 116): eight comma-separated fields, none holding a comma.
timingMatch(line) ==
  LET commas == CommaIndices(line)
      F(k) == Field(line, commas, k)
  IN /\ Len(commas) = 7
     /\ IsDecimal(F(1)) /\ IsDecimal(F(2))
     /\ IsDigits(F(3)) /\ IsDigits(F(4)) /\ IsDigits(F(5)) /\ IsDigits(F(6))
     /\ F(7) \in {<<"0">>, <<"1">>}
     /\ IsDigits(F(8))

\* Lines 122-133: the record pushed for a matching line.
timingPoint(line) ==
  LET commas == CommaIndices(line)
      F(k) == Field(line, commas, k)
  IN [time |-> parseFloat(F(1)),
      beatLength |-> parseFloat(F(2)),
      meter |-> parseInt(F(3)),
      sampleSet |-> parseInt(F(4)),
      sampleIndex |-> parseInt(F(5)),
      volume |-> parseInt(F(6)),
      uninherited |-> F(7) = <<"1">>,
      effects |-> parseInt(F(8))]

\* Lines 118-134: the records of the matching lines, in line order.
timingRecords(lines) ==
  LET matching == SelectSeq(lines, timingMatch)
  IN [i \in 1..Len(matching) |-> timingPoint(matching[i])]

parseTimingPoints(s) ==
  LET timingSection == splitSection(s, TimingPointsHeader)
      missing == IF IsSet(timingSection) THEN Val(timingSection) = <<>> ELSE TRUE
  IN IF missing THEN <<>>
     ELSE sort(timingRecords(sectionLines(Val(timingSection))), "float")

-----------------------------------------------------------------------------
(* parseHitObjects (lines 139-187)                                         *)

NOTE == 1
HOLD == 128

\* hitObjectRegex (line 151) on a line: five fields of digits, then nothing, or
\* ",params" (no comma in params), or ",params,sample", or, when that fails,
\* ",sample" with everything after the fifth field's comma as the sample.
HasParams(line, commas) ==
  /\ Len(commas) >= 5
  /\ Field(line, commas, 6) # <<>>
  /\ Len(commas) = 5 \/ commas[6] < Len(line)

RestAfterFive(line, commas) == SubSeq(line, commas[5] + 1, Len(line))

NoLineTerminator(s) == \A i \in 1..Len(s) : InClass(s[i], ".")

hitObjectMatch(line) ==
  LET commas == CommaIndices(line)
  IN /\ Len(commas) >= 4
     /\ \A k \in 1..5 : IsDigits(Field(line, commas, k))
     /\ \/ Len(commas) = 4
        \/ HasParams(line, commas)
             /\ (Len(commas) = 5
                   \/ NoLineTerminator(SubSeq(line, commas[6] + 1, Len(line))))
        \/ RestAfterFive(line, commas) # <<>>
             /\ NoLineTerminator(RestAfterFive(line, commas))

\* Groups 6 and 7 of hitObjectRegex for a matching line.
objectParamsOf(line) ==
  LET commas == CommaIndices(line)
  IN IF HasParams(line, commas) THEN Some(Field(line, commas, 6)) ELSE Unset

hitSampleOf(line) ==
  LET commas == CommaIndices(line)
  IN IF Len(commas) = 4 THEN Unset
     ELSE IF HasParams(line, commas)
          THEN IF Len(commas) = 5 THEN Unset
               ELSE Some(SubSeq(line, commas[6] + 1, Len(line)))
          ELSE Some(RestAfterFive(line, commas))

CharAt(s, i, c) == i <= Len(s) /\ s[i] = c

\* /(\d+):(\d+):(\d+):(\d+):(.+)/ (line 173) tried at index p of s.
SubRecordAt(s, p) ==
  LET e1 == RunEnd(s, p, "\\d")
      e2 == RunEnd(s, e1 + 2, "\\d")
      e3 == RunEnd(s, e2 + 2, "\\d")
      e4 == RunEnd(s, e3 + 2, "\\d")
  IN /\ e1 >= p /\ CharAt(s, e1 + 1, ":")
     /\ e2 >= e1 + 2 /\ CharAt(s, e2 + 1, ":")
     /\ e3 >= e2 + 2 /\ CharAt(s, e3 + 1, ":")
     /\ e4 >= e3 + 2 /\ CharAt(s, e4 + 1, ":")
     /\ e4 + 2 <= Len(s) /\ InClass(s[e4 + 2], ".")

\* objectParams.match(...): group 1 of the leftmost match, or Unset.
endTimeMatch(s) ==
  LET hits == {p \in 1..Len(s) : SubRecordAt(s, p)}
      p == Min(hits)
  IN IF hits = {} THEN Unset ELSE Some(SubSeq(s, p, RunEnd(s, p, "\\d")))

\* (obj.type & HitObjectType.HOLD) !== 0
isLongNoteOf(type) == (type \div HOLD) % 2 = 1

\* columnOf with the playfield width taken as 511.
columnOfWidth511(x, keyCount) == (x * keyCount.n) \div (511 * keyCount.d)

\* Math.floor((obj.x * keyCount) / 512) for a finite keyCount n/d.
columnOf(x, keyCount) == (x * keyCount.n) \div (512 * keyCount.d)

\* Lines 172-181: the end time decoded from objectParams (or undefined), then
\* `if (!obj.endTime) obj.endTime = obj.time`.
endTimeOf(time, isLongNote, objectParams) ==
  LET m == IF isLongNote /\ IsSet(objectParams) /\ Val(objectParams) # <<>>
           THEN endTimeMatch(Val(objectParams)) ELSE Unset
      decoded == IF IsSet(m) THEN Some(parseInt(Val(m))) ELSE Unset
  IN IF ~IsSet(decoded) \/ Val(decoded) = 0 THEN time ELSE Val(decoded)

\* Lines 157-183: the object pushed for a matching line.
hitObject(line, keyCount) ==
  LET commas == CommaIndices(line)
      x == parseInt(Field(line, commas, 1))
      time == parseInt(Field(line, commas, 3))
      type == parseInt(Field(line, commas, 4))
      objectParams == objectParamsOf(line)
  IN [x |-> x,
      y |-> parseInt(Field(line, commas, 2)),
      time |-> time,
      type |-> type,
      hitSound |-> parseInt(Field(line, commas, 5)),
      objectParams |-> objectParams,
      hitSample |-> hitSampleOf(line),
      column |-> Some(columnOf(x, keyCount)),
      isLongNote |-> Some(isLongNoteOf(type)),
      endTime |-> Some(endTimeOf(time, isLongNoteOf(type), objectParams))]

\* Lines 153-184: the objects of the matching lines, in line order.
hitRecords(lines, keyCount) ==
  LET matching == SelectSeq(lines, hitObjectMatch)
  IN [i \in 1..Len(matching) |-> hitObject(matching[i], keyCount)]

\* Lines 140-141: `!hitObjectSection`, true for undefined and for "".
hitObjectSectionMissing(s) ==
  LET hitObjectSection == splitSection(s, HitObjectsHeader)
  IN IF IsSet(hitObjectSection) THEN Val(hitObjectSection) = <<>> ELSE TRUE

\* Lines 145-186, reached when the section is not missing.
parseHitObjects(s, keyCount) ==
  sort(hitRecords(sectionLines(Val(splitSection(s, HitObjectsHeader))), keyCount),
       "int")

-----------------------------------------------------------------------------
(* parseOsuFile (lines 51-70)                                              *)

\* metadata.circleSize || 4 (lines 54 and 59)
keyCountOf(md) ==
  IF IsSet(md.circleSize) /\ ~IsFalsyNumber(Val(md.circleSize))
  THEN Val(md.circleSize) ELSE Rat(4, 1)

\* hitObjects.filter(obj => obj.isLongNote).length
longNoteCountOf(objs) ==
  LET IsLong(o) == IsSet(o.isLongNote) /\ Val(o.isLongNote)
  IN Len(SelectSeq(objs, IsLong))

\* endOrTime reading the onset only.
endOrTimeOnsetOnly(o) == o.time

\* obj.endTime || obj.time
endOrTime(o) ==
  IF IsSet(o.endTime) /\ Val(o.endTime) # 0 THEN Val(o.endTime) ELSE o.time

\* Math.max(...values) for a non-empty list of integers.
RECURSIVE mathMax(_)
mathMax(values) ==
  IF Len(values) = 1 THEN values[1]
  ELSE LET rest == mathMax(Tail(values))
       IN IF values[1] > rest THEN values[1] ELSE rest

durationOf(objs) ==
  IF Len(objs) > 0 THEN mathMax([i \in 1..Len(objs) |-> endOrTime(objs[i])]) ELSE 0

-----------------------------------------------------------------------------
(* organizeNotesByColumn (lines 189-200), for a key count that is a        *)
(* non-negative integer.  columns[i + 1] is the source's columns[i].       *)

\* obj.column ?? 0
columnOrZero(obj) == IF IsSet(obj.column) THEN Val(obj.column) ELSE 0

\* pushObject with col > 0 for col >= 0.
pushObjectPositiveOnly(cols, obj, keyCount) ==
  LET col == columnOrZero(obj)
  IN IF col > 0 /\ col < keyCount
     THEN [cols EXCEPT ![col + 1] = Append(@, obj)]
     ELSE cols

\* Lines 192-197: the loop body for one object.
pushObject(cols, obj, keyCount) ==
  LET col == columnOrZero(obj)
  IN IF col >= 0 /\ col < keyCount
     THEN [cols EXCEPT ![col + 1] = Append(@, obj)]
     ELSE cols

RECURSIVE organizeFrom(_, _, _)
organizeFrom(cols, rest, keyCount) ==
  IF rest = <<>> THEN cols
  ELSE organizeFrom(pushObject(cols, rest[1], keyCount), Tail(rest), keyCount)

organizeNotesByColumn(objs, keyCount) ==
  organizeFrom([i \in 1..keyCount |-> <<>>], objs, keyCount)

-----------------------------------------------------------------------------
(* The texts parseOsuFile is run on.  Each definition spells the text of   *)
(* the comment above it.                                                   *)

\* [Metadata]\nTitle:a[b\nArtist:c\n
MetadataBracketHead ==
  <<"[", "M", "e", "t", "a", "d", "a", "t", "a", "]", "\n", "T", "i", "t",
    "l", "e", ":", "a", "[", "b", "\n", "A", "r", "t", "i", "s", "t", ":",
    "c", "\n">>

\* [General]\nMode:3\n[Difficulty]\nCircleSize:7\n
GeneralDifficultyHead ==
  <<"[", "G", "e", "n", "e", "r", "a", "l", "]", "\n", "M", "o", "d", "e",
    ":", "3", "\n", "[", "D", "i", "f", "f", "i", "c", "u", "l", "t", "y",
    "]", "\n", "C", "i", "r", "c", "l", "e", "S", "i", "z", "e", ":", "7",
    "\n">>

\* [TimingPoints]\n9,1,4,1,0,5,1,0\n-2.5,1,4,1,0,5,0,0\n
TimingHead ==
  <<"[", "T", "i", "m", "i", "n", "g", "P", "o", "i", "n", "t", "s", "]",
    "\n", "9", ",", "1", ",", "4", ",", "1", ",", "0", ",", "5", ",", "1",
    ",", "0", "\n", "-", "2", ".", "5", ",", "1", ",", "4", ",", "1", ",",
    "0", ",", "5", ",", "0", ",", "0", "\n">>

\* [timingpoints]\n-2.5,1,4,1,0,5,0,0\n9,1,4,1,0,5,1,0\n
TimingLowerHead ==
  <<"[", "t", "i", "m", "i", "n", "g", "p", "o", "i", "n", "t", "s", "]",
    "\n", "-", "2", ".", "5", ",", "1", ",", "4", ",", "1", ",", "0", ",",
    "5", ",", "0", ",", "0", "\n", "9", ",", "1", ",", "4", ",", "1", ",",
    "0", ",", "5", ",", "1", ",", "0", "\n">>

\* [hitobjects]
HitObjectsLine ==
  <<"[", "h", "i", "t", "o", "b", "j", "e", "c", "t", "s", "]">>

\* [TimingPoints]
TimingPointsLine ==
  <<"[", "T", "i", "m", "i", "n", "g", "P", "o", "i", "n", "t", "s", "]">>

\* 9,1,4,1,0,5,1,0
EightFieldLine ==
  <<"9", ",", "1", ",", "4", ",", "1", ",", "0", ",", "5", ",", "1", ",",
    "0">>

\* 511,0,2,128,0,8:0:0:0:0
LongNoteLine ==
  <<"5", "1", "1", ",", "0", ",", "2", ",", "1", "2", "8", ",", "0", ",",
    "8", ":", "0", ":", "0", ":", "0", ":", "0">>

EmptyLine == <<>>

Heads ==
  {<<>>, MetadataBracketHead, GeneralDifficultyHead, TimingHead, TimingLowerHead}

Lines == {HitObjectsLine, TimingPointsLine, EightFieldLine, LongNoteLine, EmptyLine}

\* The lines joined by "\n", with no line break after the last one.
RECURSIVE JoinLines(_)
JoinLines(lines) ==
  IF lines = <<>> THEN <<>>
  ELSE IF Len(lines) = 1 THEN lines[1]
  ELSE lines[1] \o <<"\n">> \o JoinLines(Tail(lines))

MaxLines == 3

\* A head followed by at most MaxLines lines.
Texts ==
  {h \o JoinLines(b) : h \in Heads, b \in UNION {[1..n -> Lines] : n \in 0..MaxLines}}

\* [Difficulty]\nCircleSize:
DifficultyPrefix ==
  <<"[", "D", "i", "f", "f", "i", "c", "u", "l", "t", "y", "]", "\n", "C",
    "i", "r", "c", "l", "e", "S", "i", "z", "e", ":">>

\* [HitObjects]
HitObjectsPrefix ==
  <<"[", "H", "i", "t", "O", "b", "j", "e", "c", "t", "s", "]">>

\* The values written after "CircleSize:".
CircleSizeTexts == {<<"7">>, <<"0">>, <<".">>, <<"4", ".", "5">>}

DifficultyHeads ==
  {<<>>} \cup {DifficultyPrefix \o v \o <<"\n">> : v \in CircleSizeTexts}

\* The fields of a hit-object line: x, time, type and what follows hitSound.
XTexts == {<<"0">>, <<"5", "1", "1">>, <<"5", "1", "2">>}
TimeTexts == {<<"0">>, <<"5">>}
TypeTexts == {<<"1">>, <<"1", "2", "8">>, <<"1", "3", "1">>, <<"2", "5", "6">>}

\* ,8:0:0:0:0
TailDecodable ==
  <<",", "8", ":", "0", ":", "0", ":", "0", ":", "0">>

\* ,3:0:0:0:0
TailEarlier ==
  <<",", "3", ":", "0", ":", "0", ":", "0", ":", "0">>

\* ,0:0:0:0:0
TailZero ==
  <<",", "0", ":", "0", ":", "0", ":", "0", ":", "0">>

\* ,8:0:0:0
TailShort ==
  <<",", "8", ":", "0", ":", "0", ":", "0">>

\* ,x8:0:0:0:0
TailPrefixed ==
  <<",", "x", "8", ":", "0", ":", "0", ":", "0", ":", "0">>

\* ,8:0:0:0:0,s
TailWithSample ==
  <<",", "8", ":", "0", ":", "0", ":", "0", ":", "0", ",", "s">>

TailTexts ==
  {<<>>, TailDecodable, TailEarlier, TailZero, TailShort, TailPrefixed,
   TailWithSample}

\* x,0,time,type,0 followed by the tail.
RecordLine(x, time, type, tail) ==
  x \o <<",", "0", ",">> \o time \o <<",">> \o type \o <<",", "0">> \o tail

RecordLines ==
  {RecordLine(x, time, type, tail) :
     x \in XTexts, time \in TimeTexts, type \in TypeTexts, tail \in TailTexts}

\* An optional [Difficulty] section, then the [HitObjects] header with nothing
\* after it or with a line break and one line.
RecordTexts ==
  {h \o HitObjectsPrefix \o r :
     h \in DifficultyHeads, r \in {<<>>} \cup {<<"\n">> \o l : l \in RecordLines}}

-----------------------------------------------------------------------------
(* parseOsuFile as a state machine: one step per statement of lines 52-69. *)

MissingSectionMessage == "Section [HitObjects] introuvable dans le fichier .osu"

Start(texts) ==
  /\ osuContent \in texts
  /\ pc = "start"
  /\ metadata = Unset
  /\ timingPoints = Unset
  /\ hitObjects = Unset
  /\ result = Unset
  /\ error = Unset
  /\ orgObjects = <<>>
  /\ orgKeyCount = 0
  /\ columns = Unset

Init == Start(Texts)

InitRecords == Start(RecordTexts)

\* Line 52
ParseMetadata ==
  /\ pc = "start"
  /\ metadata' = Some(parseMetadata(osuContent))
  /\ pc' = "metadata"
  /\ UNCHANGED <<osuContent, timingPoints, hitObjects, result, error,
                 orgObjects, orgKeyCount, columns>>

\* Line 53
ParseTimingPoints ==
  /\ pc = "metadata"
  /\ timingPoints' = Some(parseTimingPoints(osuContent))
  /\ pc' = "timingPoints"
  /\ UNCHANGED <<osuContent, metadata, hitObjects, result, error,
                 orgObjects, orgKeyCount, columns>>

\* Line 54, when parseHitObjects throws (lines 141-143): parseOsuFile ends
\* with the error and returns nothing.
ThrowMissingSection ==
  /\ pc = "timingPoints"
  /\ hitObjectSectionMissing(osuContent)
  /\ error' = Some(MissingSectionMessage)
  /\ pc' = "thrown"
  /\ UNCHANGED <<osuContent, metadata, timingPoints, hitObjects, result,
                 orgObjects, orgKeyCount, columns>>

\* Line 54, when parseHitObjects returns.
ParseHitObjects ==
  /\ pc = "timingPoints"
  /\ ~hitObjectSectionMissing(osuContent)
  /\ hitObjects' = Some(parseHitObjects(osuContent, keyCountOf(Val(metadata))))
  /\ pc' = "hitObjects"
  /\ UNCHANGED <<osuContent, metadata, timingPoints, result, error,
                 orgObjects, orgKeyCount, columns>>

\* Lines 56-69
Return ==
  /\ pc = "hitObjects"
  /\ result' = Some([hitObjects |-> Val(hitObjects),
                     timingPoints |-> Val(timingPoints),
                     metadata |-> Val(metadata),
                     noteCount |-> Len(Val(hitObjects)),
                     longNoteCount |-> longNoteCountOf(Val(hitObjects)),
                     duration |-> durationOf(Val(hitObjects)),
                     keyCount |-> keyCountOf(Val(metadata))])
  /\ pc' = "returned"
  /\ UNCHANGED <<osuContent, metadata, timingPoints, hitObjects, error,
                 orgObjects, orgKeyCount, columns>>

Next ==
  \/ ParseMetadata
  \/ ParseTimingPoints
  \/ ThrowMissingSection
  \/ ParseHitObjects
  \/ Return

Spec == Init /\ [][Next]_vars

SpecRecords == InitRecords /\ [][Next]_vars

-----------------------------------------------------------------------------
(* organizeNotesByColumn run on its own arguments.                         *)

MaxObjects == 3
MaxColumn == 3
MaxKeyCount == 2

\* A plain note at the given time whose column is the given optional value.
NoteAt(time, column) ==
  [x |-> 0, y |-> 0, time |-> time, type |-> NOTE, hitSound |-> 0,
   objectParams |-> Unset, hitSample |-> Unset,
   column |-> column, isLongNote |-> Some(FALSE), endTime |-> Some(time)]

ColumnChoices == {Unset} \cup {Some(c) : c \in (0 - 1)..MaxColumn}

\* Sequences of at most MaxObjects notes at times 1, 2, ... with any columns.
ObjectLists ==
  UNION {{[i \in 1..n |-> NoteAt(i, cs[i])] : cs \in [1..n -> ColumnChoices]} :
           n \in 0..MaxObjects}

InitOrganize ==
  /\ orgObjects \in ObjectLists
  /\ orgKeyCount \in 0..MaxKeyCount
  /\ columns = Unset
  /\ pc = "organize"
  /\ osuContent = <<>>
  /\ metadata = Unset
  /\ timingPoints = Unset
  /\ hitObjects = Unset
  /\ result = Unset
  /\ error = Unset

\* Lines 189-200
Organize ==
  /\ pc = "organize"
  /\ columns' = Some(organizeNotesByColumn(orgObjects, orgKeyCount))
  /\ pc' = "organized"
  /\ UNCHANGED <<osuContent, metadata, timingPoints, hitObjects, result, error,
                 orgObjects, orgKeyCount>>

NextOrganize == Organize

SpecOrganize == InitOrganize /\ [][NextOrganize]_vars

-----------------------------------------------------------------------------
(* What the properties below are stated with: a text read line by line.    *)

\* The text holds the [HitObjects] header somewhere, in any letter case.
HasHitObjectsHeader(text) ==
  \E i \in 1..Len(text) : MatchAt(text, i, HitObjectsHeader)

\* The lines of the text, each trimmed.
TrimmedLines(text) ==
  LET raw == splitLines(text) IN [i \in 1..Len(raw) |-> trim(raw[i])]

\* The line is the literal pat, ignoring case.
EqualsIgnoringCase(line, pat) == Len(line) = Len(pat) /\ MatchAt(line, 1, pat)

\* The lines between the first line that is the given header and the next
\* line that starts a section (or the end of the text); none without header.
LinesOfSection(text, header) ==
  LET lines == TrimmedLines(text)
      heads == {i \in 1..Len(lines) : EqualsIgnoringCase(lines[i], header)}
      first == Min(heads)
      nexts == {j \in (first + 1)..Len(lines) : StartsWith(lines[j], <<"[">>)}
      last == IF nexts = {} THEN Len(lines) ELSE Min(nexts) - 1
  IN IF heads = {} THEN <<>> ELSE SubSeq(lines, first + 1, last)

\* What a "Key: value" line of the section gives the field: the trimmed value
\* of the first line that starts with the key; Unset without such a line.
FieldOfLines(lines, key) ==
  LET with == {i \in 1..Len(lines) : MatchAt(lines[i], 1, key)}
      line == lines[Min(with)]
  IN IF with = {} THEN Unset
     ELSE Some(trim(SubSeq(line, Len(key) + 1, Len(line))))

\* Number of places of seq that hold e.
Count(seq, e) == Cardinality({i \in 1..Len(seq) : seq[i] = e})

\* The two sequences hold the same records, each as many times.
SameRecords(a, b) ==
  /\ Len(a) = Len(b)
  /\ \A i \in 1..Len(a) : Count(a, a[i]) = Count(b, a[i])

\* time of a is at most time of b, for integer and for decimal times.
IntTimesAscend(seq) ==
  \A i, j \in 1..Len(seq) : i < j => seq[i].time <= seq[j].time

DecimalTimesAscend(seq) ==
  \A i, j \in 1..Len(seq) :
    i < j => seq[i].time.n * seq[j].time.d <= seq[j].time.n * seq[i].time.d

\* The records parseHitObjects and parseTimingPoints build before sorting.
HitRecordsRead ==
  hitRecords(sectionLines(Val(splitSection(osuContent, HitObjectsHeader))),
             keyCountOf(Val(metadata)))

TimingRecordsRead ==
  LET section == splitSection(osuContent, TimingPointsHeader)
  IN IF IsSet(section) THEN timingRecords(sectionLines(Val(section))) ELSE <<>>

-----------------------------------------------------------------------------
(* The properties                                                          *)

\* C1: a text without a [HitObjects] header (in any letter case) never gets
\* past parseHitObjects: parseOsuFile never returns a ParsedMap for it, and
\* once the metadata and the timing points are read the only step left is the
\* one that throws the missing-section error.
C1_NoHeaderIsFatal ==
  ~HasHitObjectsHeader(osuContent) =>
    /\ pc \in {"start", "metadata", "timingPoints", "thrown"}
    /\ result = Unset
    /\ pc = "timingPoints" => ENABLED ThrowMissingSection /\ ~ENABLED ParseHitObjects
    /\ pc = "thrown" => error = Some(MissingSectionMessage)

\* C1 witness: the error is thrown for a text without the header after a
\* title and a timing point were extracted from it.
C1_Witness ==
  /\ pc = "thrown"
  /\ ~HasHitObjectsHeader(osuContent)
  /\ IsSet(Val(metadata).title)
  /\ Len(Val(timingPoints)) > 0
  /\ result = Unset

\* C2: for a text that holds a [HitObjects] header parseOsuFile raises no
\* error.
C2_HeaderNeverFatal ==
  HasHitObjectsHeader(osuContent) => pc # "thrown" /\ error = Unset

\* C3: every hit object parseHitObjects returns has endTime >= time.
C3_EndNotBeforeStart ==
  IsSet(hitObjects) =>
    \A i \in 1..Len(Val(hitObjects)) :
      Val(Val(hitObjects)[i].endTime) >= Val(hitObjects)[i].time

\* C4: in the ParsedMap returned, hitObjects and timingPoints are each
\* non-decreasing in time and hold exactly the records built from the
\* matching lines, each as many times as it was built.
C4_SortedPermutation ==
  pc = "returned" =>
    /\ IntTimesAscend(Val(result).hitObjects)
    /\ DecimalTimesAscend(Val(result).timingPoints)
    /\ SameRecords(Val(result).hitObjects, HitRecordsRead)
    /\ SameRecords(Val(result).timingPoints, TimingRecordsRead)

\* C4 witness: a ParsedMap whose hit objects and whose timing points were
\* both read in an order that is not their order by time.
C4_Witness ==
  /\ pc = "returned"
  /\ Len(HitRecordsRead) >= 2
  /\ ~IntTimesAscend(HitRecordsRead)
  /\ ~DecimalTimesAscend(TimingRecordsRead)

\* column (an integer) lies in [0, keyCount) for the key count n/d.
ColumnInRange(o, keyCount) ==
  /\ IsSet(o.column)
  /\ Val(o.column) \in Int
  /\ 0 <= Val(o.column)
  /\ Val(o.column) * keyCount.d < keyCount.n

KeyCountOfText(md) ==
  IF md.circleSize = Unset THEN Rat(4, 1)
  ELSE IF Val(md.circleSize).nan \/ Val(md.circleSize).n = 0 THEN Rat(4, 1)
  ELSE Val(md.circleSize)

WithColumn(seq, c) ==
  LET Is(o) == IsSet(o.column) /\ Val(o.column) = c IN SelectSeq(seq, Is)

\* The objects of seq whose column, taken as 0 when it is not set, equals c.
WithColumnOrZero(seq, c) ==
  LET Is(o) == (IF IsSet(o.column) THEN Val(o.column) ELSE 0) = c
  IN SelectSeq(seq, Is)

StatedEndTime(o) ==
  IF /\ o.type % 256 >= 128
     /\ IsSet(o.objectParams)
     /\ SubRecordAt(Val(o.objectParams), 1)
  THEN parseInt(SubSeq(Val(o.objectParams), 1,
                       RunEnd(Val(o.objectParams), 1, "\\d")))
  ELSE o.time

\* C7: for every hit object, isLongNote is true exactly when bit 128 of type
\* is set, and endTime is the end time decoded from the 6th field of a long
\* note, and time when there is nothing to decode.
C7_LongNoteEndTime ==
  IsSet(hitObjects) =>
    \A i \in 1..Len(Val(hitObjects)) :
      /\ Val(Val(hitObjects)[i].isLongNote) = (Val(hitObjects)[i].type % 256 >= 128)
      /\ Val(Val(hitObjects)[i].endTime) = StatedEndTime(Val(hitObjects)[i])

\* C8: in the ParsedMap returned, noteCount is the number of hit objects,
\* longNoteCount the number of them with isLongNote true, and duration is 0
\* without hit objects and the largest endTime otherwise.
C8_SummaryAgrees ==
  pc = "returned" =>
    LET objs == Val(result).hitObjects
        duration == Val(result).duration
    IN /\ Val(result).noteCount = Len(objs)
       /\ Val(result).longNoteCount =
            Cardinality({i \in 1..Len(objs) : objs[i].isLongNote = Some(TRUE)})
       /\ objs = <<>> => duration = 0
       /\ objs # <<>> =>
            /\ \A i \in 1..Len(objs) : duration >= Val(objs[i].endTime)
            /\ \E i \in 1..Len(objs) : duration = Val(objs[i].endTime)

\* C8 witness: a ParsedMap of two hit objects, one of them a long note that
\* ends after every onset, so that duration is its endTime.
C8_Witness ==
  /\ pc = "returned"
  /\ Val(result).noteCount = 2
  /\ Val(result).longNoteCount = 1
  /\ \A i \in 1..2 : Val(result).duration > Val(result).hitObjects[i].time

\* C9: each of title, artist, creator and version is the trimmed value of the
\* section's "Key: value" line, whatever the other lines hold, and unset only
\* when the [Metadata] section has no line for the key.
C9_FieldsIndependent ==
  IsSet(metadata) =>
    LET lines == LinesOfSection(osuContent, MetadataHeader)
    IN /\ Val(metadata).title = FieldOfLines(lines, TitleKey)
       /\ Val(metadata).artist = FieldOfLines(lines, ArtistKey)
       /\ Val(metadata).creator = FieldOfLines(lines, CreatorKey)
       /\ Val(metadata).version = FieldOfLines(lines, VersionKey)

\* C10: the hit objects returned are the records of the lines of the
\* [HitObjects] section and the timing points returned the records of the
\* lines of the [TimingPoints] section, a section ending at the next section
\* header: no line of another section gives a record.
C10_OwnSectionOnly ==
  pc = "returned" =>
    /\ SameRecords(Val(result).hitObjects,
                   hitRecords(SelectSeq(LinesOfSection(osuContent, HitObjectsHeader),
                                        IsRecordLine),
                              Val(result).keyCount))
    /\ SameRecords(Val(result).timingPoints,
                   timingRecords(SelectSeq(LinesOfSection(osuContent,
                                                          TimingPointsHeader),
                                           IsRecordLine)))

====
